---- MODULE Spec2Model ----
(***************************************************************************)
(* Model of Firestore/core/src/core/filter.cc: the Filter value wrapper    *)
(* (operator==, operator<<) and Filter::Rep::ThreadSafeMemoizer, the       *)
(* std::call_once guarded cache of a composite filter's flattened leaves.  *)
(*                                                                         *)
(* One ThreadSafeMemoizer (one node) is modelled.  std::call_once is       *)
(* modelled by its standard semantics ([thread.once.callonce]): a call is  *)
(* passive (flag already set: returns at once), active and returning (runs *)
(* the callable, sets the flag), or active and exceptional (the callable   *)
(* throws: the exception propagates and the flag is NOT set, so another    *)
(* call becomes active).  A call made while another is active blocks.      *)
(***************************************************************************)
EXTENDS Integers, Sequences, FiniteSets

\* ------------------------------------------------------------------ bounds

\* Number of threads that call memoize() on the node.
NumThreads == 2

\* Total number of memoize() calls made over the node's lifetime.
MaxCalls == 3

\* Longest child list of a composite filter used as an operand of == and <<.
MaxChildren == 2

Threads == 1..NumThreads

\* ------------------------------------------------------------- the inputs

\* A compute function `func` (std::function<void(std::vector<FieldFilter>&)>)
\* is described by what it does to the vector it is handed: it appends the
\* leaves of `out` one by one and then either returns or throws.
ComputeFns ==
  { [out |-> <<"a", "b">>, throws |-> FALSE],
    [out |-> <<"b">>,      throws |-> FALSE],
    [out |-> <<>>,         throws |-> FALSE],
    [out |-> <<"a">>,      throws |-> TRUE] }

NoFunc == [out |-> <<>>, throws |-> FALSE]

None == 0
Dtor == NumThreads + 1

\* ------------------------------------------------------------------ state

VARIABLES
  once_,         \* std::once_flag once_: "Unstarted" | "Populating" | "Done"
  filters_,      \* std::vector<FieldFilter> filters_
  released,      \* the memoizer's members have been destroyed
  pc,            \* pc[t]: where thread t is inside memoize()
  func,          \* func[t]: the argument of t's memoize() call in flight
  progress,      \* leaves appended so far by the running func
  owner,         \* the caller whose call_once is active (None if none)
  dtor,          \* where ~ThreadSafeMemoizer() is
  calls,         \* memoize() calls made so far
  invocations,   \* history: times a func was invoked
  completions,   \* history: times a func returned normally
  results,       \* history: the sequences memoize() calls returned
  afterRelease,  \* history: accesses made to filters_ after its release
  racedPopulation, \* history: the destructor started during a population
  opResult,      \* outcome of the last operator== / operator<< evaluated
  peer           \* a second node: the memoizer its Rep owns

memoVars == <<once_, filters_, released, pc, func, progress, owner, dtor,
              calls, invocations, completions, results, afterRelease,
              racedPopulation>>

vars == <<once_, filters_, released, pc, func, progress, owner, dtor,
          calls, invocations, completions, results, afterRelease,
          racedPopulation, opResult, peer>>

\* The second node before its Rep is constructed.
NoRep == [state |-> "none", once_ |-> "Unstarted", filters_ |-> <<>>,
          calls |-> 0]

Init ==
  /\ once_ = "Unstarted"
  /\ filters_ = <<>>
  /\ released = FALSE
  /\ pc = [t \in Threads |-> "idle"]
  /\ func = [t \in Threads |-> NoFunc]
  /\ progress = 0
  /\ owner = None
  /\ dtor = "idle"
  /\ calls = 0
  /\ invocations = 0
  /\ completions = 0
  /\ results = {}
  /\ afterRelease = {}
  /\ racedPopulation = FALSE
  /\ opResult = [op |-> "none"]
  /\ peer = NoRep

\* ------------------------------------------------- memoize(), lines 48-51

\* std::call_once(once_, ...) finds the flag unset and no call active: the
\* caller becomes the active call and invokes func(filters_).
BecomeActive(t) ==
  /\ once_' = "Populating"
  /\ owner' = t
  /\ progress' = 0
  /\ invocations' = invocations + 1
  /\ pc' = [pc EXCEPT ![t] = "running"]

\* A guard that is a plain "not yet done" test: a call that finds another
\* call active, or the flag already set, runs func all the same.
CallOnceTest_Unguarded(t) == BecomeActive(t)

\* A guard that takes an empty filters_ for "not yet computed": a call that
\* finds the flag set over an empty sequence runs func again.
CallOnceTest_EmptyMeansUnset(t) ==
  CASE once_ = "Unstarted" \/ (once_ = "Done" /\ filters_ = <<>>) ->
         BecomeActive(t)
    [] once_ = "Populating" ->
         /\ pc' = [pc EXCEPT ![t] = "waiting"]
         /\ UNCHANGED <<once_, owner, progress, invocations>>
    [] OTHER ->
         /\ pc' = [pc EXCEPT ![t] = "returning"]
         /\ UNCHANGED <<once_, owner, progress, invocations>>

\* The test std::call_once makes of once_ on behalf of thread t.
CallOnceTest(t) ==
  CASE once_ = "Unstarted" ->
         BecomeActive(t)
    [] once_ = "Populating" ->
         /\ pc' = [pc EXCEPT ![t] = "waiting"]
         /\ UNCHANGED <<once_, owner, progress, invocations>>
    [] once_ = "Done" ->
         /\ pc' = [pc EXCEPT ![t] = "returning"]
         /\ UNCHANGED <<once_, owner, progress, invocations>>

\* Thread t calls memoize(f): line 48, and call_once's test on line 49.
\* Calls are made on a live memoizer only (before its destructor starts),
\* and their number is bounded by MaxCalls.
Memoize(t, f) ==
  /\ pc[t] = "idle"
  /\ dtor = "idle"
  /\ calls < MaxCalls
  /\ calls' = calls + 1
  /\ func' = [func EXCEPT ![t] = f]
  /\ CallOnceTest(t)
  /\ UNCHANGED <<filters_, released, dtor, completions, results,
                 afterRelease, racedPopulation, opResult,
                 peer>>

\* func(filters_) appends its next leaf (line 49, inside the lambda).
FuncAppend(t) ==
  /\ pc[t] = "running"
  /\ progress < Len(func[t].out)
  /\ filters_' = Append(filters_, func[t].out[progress + 1])
  /\ progress' = progress + 1
  /\ UNCHANGED <<once_, released, pc, func, owner, dtor, calls, invocations,
                 completions, results, afterRelease, racedPopulation, opResult,
                 peer>>

\* A returning call that forgets to set the flag: the blocked calls are never
\* released.
FuncReturn_FlagNotSet(t) ==
  /\ pc[t] = "running"
  /\ progress = Len(func[t].out)
  /\ ~func[t].throws
  /\ completions' = completions + 1
  /\ pc' = [pc EXCEPT ![t] = "returning"]
  /\ UNCHANGED <<once_, filters_, released, func, progress, owner, dtor,
                 calls, invocations, results, afterRelease, racedPopulation,
                 opResult,
                 peer>>

\* func returns normally: call_once sets the flag and returns (line 49).
FuncReturn(t) ==
  /\ pc[t] = "running"
  /\ progress = Len(func[t].out)
  /\ ~func[t].throws
  /\ once_' = "Done"
  /\ completions' = completions + 1
  /\ pc' = [pc EXCEPT ![t] = "returning"]
  /\ UNCHANGED <<filters_, released, func, progress, owner, dtor, calls,
                 invocations, results, afterRelease, racedPopulation, opResult,
                 peer>>

\* func throws: the call is exceptional, call_once leaves the flag unset and
\* the exception propagates out of memoize() (line 49); what func appended
\* before throwing stays in filters_.
FuncThrow(t) ==
  /\ pc[t] = "running"
  /\ progress = Len(func[t].out)
  /\ func[t].throws
  /\ once_' = "Unstarted"
  /\ owner' = None
  /\ pc' = [pc EXCEPT ![t] = "idle"]
  /\ func' = [func EXCEPT ![t] = NoFunc]
  /\ UNCHANGED <<filters_, released, progress, dtor, calls, invocations,
                 completions, results, afterRelease, racedPopulation, opResult,
                 peer>>

\* A blocked call that wakes up and goes on without testing the flag again.
CallOnceWake_Spurious(t) ==
  /\ pc[t] = "waiting"
  /\ ~released
  /\ pc' = [pc EXCEPT ![t] = "returning"]
  /\ UNCHANGED <<once_, filters_, released, func, progress, owner, dtor,
                 calls, invocations, completions, results, afterRelease,
                 racedPopulation, opResult,
                 peer>>

\* A call blocked in call_once is released when no call is active any more,
\* and tests the flag again (line 49).
CallOnceWake(t) ==
  /\ pc[t] = "waiting"
  /\ ~released
  /\ once_ # "Populating"
  /\ CallOnceTest(t)
  /\ UNCHANGED <<filters_, released, func, dtor, calls, completions, results,
                 afterRelease, racedPopulation, opResult,
                 peer>>

\* func, running on thread t, calls memoize() on the same node (lines 48-49):
\* the inner call_once finds a call active (t's own outer call) and blocks;
\* t is then the active caller and a blocked one at once.
FuncReenter(t) ==
  /\ pc[t] = "running"
  /\ calls < MaxCalls
  /\ calls' = calls + 1
  /\ CallOnceTest(t)
  /\ UNCHANGED <<filters_, released, func, dtor, completions, results,
                 afterRelease, racedPopulation, opResult,
                 peer>>

\* return filters_ (line 50): the caller receives the cached sequence.
Return(t) ==
  /\ pc[t] = "returning"
  /\ ~released
  /\ results' = results \cup {filters_}
  /\ pc' = [pc EXCEPT ![t] = "idle"]
  /\ func' = [func EXCEPT ![t] = NoFunc]
  /\ UNCHANGED <<once_, filters_, released, progress, owner, dtor, calls,
                 invocations, completions, afterRelease, racedPopulation, opResult,
                 peer>>

\* ------------------------------------ ~ThreadSafeMemoizer(), lines 40-46

\* The last shared_ptr to the memoizer is dropped while no memoize() call is
\* in flight: the destructor starts.
DtorBegin ==
  /\ dtor = "idle"
  /\ \A t \in Threads : pc[t] = "idle"
  /\ dtor' = "call_once"
  /\ UNCHANGED <<once_, filters_, released, pc, func, progress, owner, calls,
                 invocations, completions, results, afterRelease, racedPopulation, opResult,
                 peer>>

\* A destructor without the call_once of line 45: it goes on to destroy the
\* members whatever the guard's state.
DtorCallOnce_NoSync ==
  /\ dtor = "call_once"
  /\ dtor' = "release"
  /\ UNCHANGED <<once_, filters_, released, pc, func, progress, owner, calls,
                 invocations, completions, results, afterRelease,
                 racedPopulation, opResult,
                 peer>>

\* std::call_once(once_, [&](){}) on line 45: blocks while a call is active,
\* becomes the active call if the flag is unset, passes if it is set.
DtorCallOnce ==
  /\ dtor = "call_once"
  /\ once_ # "Populating"
  /\ IF once_ = "Unstarted"
       THEN /\ once_' = "Populating"
            /\ owner' = Dtor
            /\ dtor' = "noop"
       ELSE /\ dtor' = "release"
            /\ UNCHANGED <<once_, owner>>
  /\ UNCHANGED <<filters_, released, pc, func, progress, calls, invocations,
                 completions, results, afterRelease, racedPopulation, opResult,
                 peer>>

\* A destructor whose call_once runs a population instead of the empty
\* lambda.
DtorNoop_Populates ==
  /\ dtor = "noop"
  /\ once_' = "Done"
  /\ dtor' = "release"
  /\ filters_' = filters_ \o <<"a", "b">>
  /\ invocations' = invocations + 1
  /\ UNCHANGED <<released, pc, func, progress, owner, calls, completions,
                 results, afterRelease, racedPopulation, opResult, peer>>

\* The empty lambda returns: call_once sets the flag (line 45).
DtorNoop ==
  /\ dtor = "noop"
  /\ once_' = "Done"
  /\ dtor' = "release"
  /\ UNCHANGED <<filters_, released, pc, func, progress, owner, calls,
                 invocations, completions, results, afterRelease, racedPopulation, opResult,
                 peer>>

\* The destructor's body is over (line 46): the members once_ and filters_
\* are destroyed.
DtorRelease ==
  /\ dtor = "release"
  /\ released' = TRUE
  /\ filters_' = <<>>
  /\ dtor' = "gone"
  /\ UNCHANGED <<once_, pc, func, progress, owner, calls, invocations,
                 completions, results, afterRelease, racedPopulation, opResult,
                 peer>>

\* -------------------------------------- destruction racing with a call

\* The last reference to the node is dropped elsewhere while a memoize()
\* call is still in flight: the destructor starts during the call.
DtorBeginRacing ==
  /\ dtor = "idle"
  /\ \E t \in Threads : pc[t] # "idle"
  /\ dtor' = "call_once"
  /\ racedPopulation' = (once_ = "Populating")
  /\ UNCHANGED <<once_, filters_, released, pc, func, progress, owner, calls,
                 invocations, completions, results, afterRelease, opResult,
                 peer>>

\* What a read through a reference to the destroyed vector may yield.
DanglingContents == {f.out : f \in ComputeFns}

\* return filters_ (line 50) once the members are destroyed: the caller
\* receives a dangling reference, and reads whatever the storage now holds.
ReturnReleased(t) ==
  /\ pc[t] = "returning"
  /\ released
  /\ \E s \in DanglingContents : results' = results \cup {s}
  /\ afterRelease' = afterRelease \cup {"read"}
  /\ pc' = [pc EXCEPT ![t] = "idle"]
  /\ func' = [func EXCEPT ![t] = NoFunc]
  /\ UNCHANGED <<once_, filters_, released, progress, owner, dtor, calls,
                 invocations, completions, racedPopulation, opResult,
                 peer>>

\* A call still blocked in call_once (line 49) when once_ is destroyed tests
\* a destroyed flag: it may find it set and go on to return, or find it
\* unset and run func on the destroyed vector.
CallOnceWakeReleased(t) ==
  /\ pc[t] = "waiting"
  /\ released
  /\ \E seen \in {"Unstarted", "Done"} :
       IF seen = "Done"
         THEN UNCHANGED <<invocations, afterRelease>>
         ELSE /\ invocations' = invocations + 1
              /\ afterRelease' = afterRelease \cup {"write"}
  /\ pc' = [pc EXCEPT ![t] = "returning"]
  /\ UNCHANGED <<once_, filters_, released, func, progress, owner, dtor,
                 calls, completions, results, racedPopulation, opResult,
                 peer>>

\* ------------------------------------------------------- Filter values

\* A Filter holds rep_, a shared pointer to a node, or nullptr.
Null == [kind |-> "null", field |-> "", op |-> "", filters |-> <<>>]

FieldFilter(x) == [kind |-> "field", field |-> x, op |-> "", filters |-> <<>>]

CompositeFilter(o, fs) ==
  [kind |-> "composite", field |-> "", op |-> o, filters |-> fs]

Fields == {"a", "b"}
Ops == {"and", "or"}

FieldFilters == {FieldFilter(x) : x \in Fields}

ChildLists == UNION {[1..n -> FieldFilters] : n \in 1..MaxChildren}

\* The filters used as operands: the empty filter, the leaves, and the
\* composites of one level of leaves.
Filters ==
  {Null} \cup FieldFilters
         \cup {CompositeFilter(o, fs) : o \in Ops, fs \in ChildLists}

\* The filter whose node owns the memoizer modelled above.
ThisFilter == CompositeFilter("and", <<FieldFilter("a"), FieldFilter("b")>>)

Handles == {Null, ThisFilter}

\* Rep::Equals: structural equality of two nodes (same variant; leaves: same
\* field; composites: same operator and pairwise equal children in order).
RECURSIVE Equals(_, _)
Equals(l, r) ==
  /\ l.kind = r.kind
  /\ CASE l.kind = "field" -> l.field = r.field
       [] l.kind = "composite" ->
            /\ l.op = r.op
            /\ Len(l.filters) = Len(r.filters)
            /\ \A i \in 1..Len(l.filters) : Equals(l.filters[i], r.filters[i])
       [] OTHER -> TRUE

RECURSIVE JoinToString(_, _)
RECURSIVE ToString(_)
\* Filter::ToString: the empty text for the empty filter, else the node's
\* ToString: a leaf renders its field, a composite op(child1, child2, ...).
ToString(f) ==
  CASE f.kind = "null" -> ""
    [] f.kind = "field" -> f.field
    [] OTHER -> f.op \o "(" \o JoinToString(f.filters, 1) \o ")"

JoinToString(fs, i) ==
  IF i > Len(fs) THEN ""
  ELSE IF i = Len(fs) THEN ToString(fs[i])
  ELSE ToString(fs[i]) \o ", " \o JoinToString(fs, i + 1)

\* ------------------------------------------------ operator==, lines 27-31

\* An empty left operand taken to equal anything.
OperatorEqValue_EmptyEqualsAll(lhs, rhs) ==
  IF lhs.kind = "null"
    THEN TRUE
    ELSE (rhs.kind # "null" /\ Equals(lhs, rhs))

\* || written for &&: an empty right operand equals any non-empty left one.
OperatorEqValue_OrForAnd(lhs, rhs) ==
  IF lhs.kind = "null"
    THEN rhs.kind = "null"
    ELSE (rhs.kind = "null" \/ Equals(lhs, rhs))

\* lhs.rep_ == nullptr ? rhs.rep_ == nullptr
\*                     : (rhs.rep_ != nullptr && lhs.rep_->Equals(*rhs.rep_))
OperatorEqValue(lhs, rhs) ==
  IF lhs.kind = "null"
    THEN rhs.kind = "null"
    ELSE (rhs.kind # "null" /\ Equals(lhs, rhs))

\* Whether the evaluation above reaches the call of Equals: only in the
\* else branch, and there only past the && (rhs.rep_ != nullptr).
OperatorEqCallsEquals(lhs, rhs) ==
  IF lhs.kind = "null"
    THEN FALSE
    ELSE rhs.kind # "null"

\* An equality that compares flattened leaves: it goes through the guard of
\* the left operand's node, waiting while a population runs and populating
\* the cache itself when it is still unset.
OperatorEq_Flattens(lhs, rhs) ==
  /\ once_ # "Populating"
  /\ opResult' = [op |-> "eq", lhs |-> lhs, rhs |-> rhs,
                  result |-> OperatorEqValue(lhs, rhs),
                  equalsCalled |-> OperatorEqCallsEquals(lhs, rhs)]
  /\ IF once_ = "Unstarted" /\ lhs = ThisFilter
       THEN /\ once_' = "Done"
            /\ filters_' = filters_ \o <<"a", "b">>
            /\ invocations' = invocations + 1
            /\ completions' = completions + 1
       ELSE UNCHANGED <<once_, filters_, invocations, completions>>
  /\ UNCHANGED <<released, pc, func, progress, owner, dtor, calls, results,
                 afterRelease, racedPopulation, peer>>

OperatorEq(lhs, rhs) ==
  /\ opResult' = [op |-> "eq", lhs |-> lhs, rhs |-> rhs,
                  result |-> OperatorEqValue(lhs, rhs),
                  equalsCalled |-> OperatorEqCallsEquals(lhs, rhs)]
  /\ UNCHANGED memoVars
  /\ UNCHANGED peer

\* ------------------------------------------------ operator<<, lines 33-35

\* os << filter.ToString()
OperatorShl(filter) ==
  /\ opResult' = [op |-> "shl", filter |-> filter, os |-> ToString(filter)]
  /\ UNCHANGED memoVars
  /\ UNCHANGED peer

\* ------------------------------------------------ Rep::Rep(), lines 37-38

\* Rep::Rep(): memoized_flattened_filters_ is a ThreadSafeMemoizer made by
\* std::make_shared for this Rep, with once_ unset and filters_ empty.
PeerRep ==
  /\ peer.state = "none"
  /\ peer' = [state |-> "live", once_ |-> "Unstarted", filters_ |-> <<>>,
              calls |-> 0]
  /\ UNCHANGED <<memoVars, opResult>>

\* The outcome of an uncontended memoize(func) on a memoizer m (lines 48-51):
\* func runs only if the flag is unset, and a func that throws leaves the
\* flag unset with what it appended.
MemoizeAlone(m, f) ==
  IF m.once_ = "Unstarted"
    THEN [m EXCEPT !.filters_ = @ \o f.out,
                   !.once_ = IF f.throws THEN "Unstarted" ELSE "Done",
                   !.calls = @ + 1]
    ELSE [m EXCEPT !.calls = @ + 1]

\* A memoization table shared by every node of the process: populating the
\* second node also fills this node's cache.
PeerMemoize_ProcessWideTable(f) ==
  /\ peer.state = "live"
  /\ peer.calls < MaxCalls
  /\ peer' = MemoizeAlone(peer, f)
  /\ once_' = peer'.once_
  /\ filters_' = peer'.filters_
  /\ UNCHANGED <<released, pc, func, progress, owner, dtor, calls,
                 invocations, completions, results, afterRelease,
                 racedPopulation, opResult>>

\* memoize(func) on the second node, from one thread (lines 48-51).
PeerMemoize(f) ==
  /\ peer.state = "live"
  /\ peer.calls < MaxCalls
  /\ peer' = MemoizeAlone(peer, f)
  /\ UNCHANGED <<memoVars, opResult>>

\* ~ThreadSafeMemoizer() of the second node (lines 40-46): the no-op
\* call_once sets the flag if it was unset, then the members are destroyed.
PeerDtor ==
  /\ peer.state = "live"
  /\ peer' = [peer EXCEPT !.state = "destroyed", !.once_ = "Done",
                          !.filters_ = <<>>]
  /\ UNCHANGED <<memoVars, opResult>>

\* -------------------------------------------------------- specifications

Next ==
  \/ \E t \in Threads, f \in ComputeFns : Memoize(t, f)
  \/ \E t \in Threads : FuncAppend(t)
  \/ \E t \in Threads : FuncReturn(t)
  \/ \E t \in Threads : FuncThrow(t)
  \/ \E t \in Threads : CallOnceWake(t)
  \/ \E t \in Threads : Return(t)
  \/ DtorBegin
  \/ DtorCallOnce
  \/ DtorNoop
  \/ DtorRelease
  \/ \E l \in Handles, r \in Handles : OperatorEq(l, r)
  \/ \E f \in Handles : OperatorShl(f)

\* The node in use: concurrent memoize() calls, the operators on the filter
\* that holds it, and its destruction once no call is in flight.
Spec == Init /\ [][Next]_vars

NextOperators ==
  \/ \E l \in Filters, r \in Filters : OperatorEq(l, r)
  \/ \E f \in Filters : OperatorShl(f)

\* operator== and operator<< applied to every pair of operand filters.
SpecOperators == Init /\ [][NextOperators]_vars

NextTeardown ==
  \/ Next
  \/ DtorBeginRacing
  \/ \E t \in Threads : ReturnReleased(t)
  \/ \E t \in Threads : CallOnceWakeReleased(t)

\* The node destroyed while memoize() calls on it are still in flight.
SpecTeardown == Init /\ [][NextTeardown]_vars

\* Every thread inside memoize() keeps being scheduled.
Fairness ==
  \A t \in Threads :
    /\ WF_vars(FuncAppend(t))
    /\ WF_vars(FuncReturn(t))
    /\ WF_vars(FuncThrow(t))
    /\ WF_vars(CallOnceWake(t))
    /\ WF_vars(Return(t))

FairSpec == Spec /\ Fairness

NextReentrant ==
  \/ Next
  \/ \E t \in Threads : FuncReenter(t)

\* Compute functions that may call memoize() on the node they populate.
SpecReentrant == Init /\ [][NextReentrant]_vars

\* memoize() calls and the destructor of this node, as in Next.
NextMemoizer ==
  \/ \E t \in Threads, f \in ComputeFns : Memoize(t, f)
  \/ \E t \in Threads : FuncAppend(t)
  \/ \E t \in Threads : FuncReturn(t)
  \/ \E t \in Threads : FuncThrow(t)
  \/ \E t \in Threads : CallOnceWake(t)
  \/ \E t \in Threads : Return(t)
  \/ DtorBegin
  \/ DtorCallOnce
  \/ DtorNoop
  \/ DtorRelease

NextNodes ==
  \/ NextMemoizer
  \/ PeerRep
  \/ \E f \in ComputeFns : PeerMemoize(f)
  \/ PeerDtor

\* Two nodes, each constructed by Rep::Rep(), used and destroyed side by side.
SpecNodes == Init /\ [][NextNodes]_vars

\* ----------------------------------------------------------------- claims

\* C1: for any number of threads calling memoize() in any interleaving, the
\* population routine is executed at most once over the node's lifetime, and
\* exactly once as soon as a memoize() call has been made.
C1_ExecutedAtMostOnce ==
  /\ invocations <= 1
  /\ (calls > 0 => invocations = 1)

\* C2: a call never returns while the guard is Unstarted or Populating, and a
\* call that blocked on another thread's population never starts a
\* population of its own.
C2_WaitersNeverPopulate ==
  [][\A t \in Threads :
       /\ (pc[t] = "returning" /\ pc'[t] = "idle") => once_ = "Done"
       /\ pc[t] = "waiting" => pc'[t] # "running"]_vars

\* C3: every memoize() call returns the same leaf sequence, the one that
\* stays cached, and the population routine has run once when calls have
\* returned.
C3_SameSequenceOneRun ==
  /\ Cardinality(results) <= 1
  /\ (~released => results \subseteq {filters_})
  /\ (results # {} => invocations = 1)

\* C4: once the guard is Done no step changes filters_, except the release
\* of the storage at the end of the destructor: further memoize() calls,
\* operator==, operator<< and the destructor's call_once leave it as it is.
C4_DoneIsImmutable ==
  [][once_ = "Done" =>
       (filters_' = filters_ \/ (dtor = "release" /\ released'))]_vars

\* The cache is populated, a later call has returned it, an operator has
\* been applied and the destructor's call_once has passed.
C4_Witness ==
  /\ once_ = "Done"
  /\ filters_ = <<"a", "b">>
  /\ calls >= 2
  /\ results # {}
  /\ opResult.op = "eq"
  /\ dtor = "release"

C6_FailureMarksDone ==
  /\ [][\A t \in Threads :
          (pc[t] = "running" /\ pc'[t] = "idle") => once_' = "Done"]_vars
  /\ [](invocations <= 1)

\* C7: operator== is true iff both operands are empty, or both are non-empty
\* and Equals of the left node on the right node is true; Equals is not
\* called when either operand is empty.
C7_OperatorEqMeaning ==
  opResult.op = "eq" =>
    LET l == opResult.lhs
        r == opResult.rhs
    IN  /\ opResult.result <=>
             \/ (l = Null /\ r = Null)
             \/ (l # Null /\ r # Null /\ Equals(l, r))
        /\ (l = Null \/ r = Null) => ~opResult.equalsCalled
        /\ (l = Null /\ opResult.result) => r = Null
        /\ (r = Null /\ opResult.result) => l = Null

\* operator== has compared an empty filter with a non-empty one.
C7_Witness ==
  /\ opResult.op = "eq"
  /\ opResult.lhs = Null
  /\ opResult.rhs = ThisFilter
  /\ opResult.result = FALSE

\* C8: operator== is reflexive and symmetric over all filters, empty or not.
C8_ReflexiveSymmetric ==
  opResult.op = "eq" =>
    /\ opResult.lhs = opResult.rhs => opResult.result
    /\ opResult.result = OperatorEqValue(opResult.rhs, opResult.lhs)

\* operator== has compared two different composites, in one order.
C8_Witness ==
  /\ opResult.op = "eq"
  /\ opResult.lhs = ThisFilter
  /\ opResult.rhs =
       CompositeFilter("and", <<FieldFilter("b"), FieldFilter("a")>>)
  /\ opResult.result = FALSE

\* C9: the guard only moves Unstarted -> Populating -> Done, the second step
\* being taken by the caller that took the first; it never moves backwards.
C9_ForwardOnly ==
  [][once_' # once_ =>
       \/ (once_ = "Unstarted" /\ once_' = "Populating" /\ owner' # None)
       \/ /\ once_ = "Populating" /\ once_' = "Done"
          /\ owner' = owner
          /\ \/ (owner = Dtor /\ dtor = "noop")
             \/ (owner \in Threads /\ pc[owner] = "running")]_vars

\* C10: under fair scheduling every memoize() call comes to its end, and a
\* call whose own compute function does not throw ends by returning the
\* sequence.
C10_EveryCallEnds ==
  \A t \in Threads :
    /\ (pc[t] # "idle") ~> (pc[t] = "idle")
    /\ (pc[t] # "idle" /\ ~func[t].throws)
         ~> (pc[t] = "idle" /\ results # {})

\* A call blocked in call_once while another thread's population is running.
C10_Witness ==
  \E t, u \in Threads :
    /\ pc[t] = "waiting"
    /\ pc[u] = "running"
    /\ progress > 0

C12_ReentryDeadlocks ==
  /\ [][\A t \in Threads :
          (owner = t /\ pc[t] = "waiting") =>
            /\ owner' = t
            /\ pc'[t] = "waiting"
            /\ once_' = "Populating"
            /\ results' = results
            /\ \A u \in Threads : pc[u] = "waiting" => pc'[u] = "waiting"]_vars
  /\ [](\A t \in Threads :
          (owner = t /\ pc[t] = "waiting") =>
            /\ once_ = "Populating"
            /\ \A u \in Threads : pc[u] \in {"idle", "waiting"})

\* A population routine has re-entered and another thread's call is blocked
\* behind it.
C12_Witness ==
  \E t, u \in Threads :
    /\ t # u
    /\ owner = t
    /\ pc[t] = "waiting"
    /\ pc[u] = "waiting"

C14_NodesIndependent ==
  /\ [](calls = 0 /\ dtor = "idle" => once_ = "Unstarted" /\ filters_ = <<>>)
  /\ [](peer.state = "live" /\ peer.calls = 0 =>
          peer.once_ = "Unstarted" /\ peer.filters_ = <<>>)
  /\ [][(peer.state = "none" /\ peer'.state = "live") =>
          peer'.once_ = "Unstarted" /\ peer'.filters_ = <<>>]_vars
  /\ [][peer' # peer => UNCHANGED <<once_, filters_, released>>]_vars
  /\ [][<<once_, filters_, released>>' # <<once_, filters_, released>> =>
          peer' = peer]_vars

\* Both nodes populated, by different functions, each holding its own leaves.
C14_Witness ==
  /\ peer.state = "live"
  /\ peer.once_ = "Done"
  /\ peer.filters_ = <<"b">>
  /\ once_ = "Done"
  /\ filters_ = <<"a", "b">>
  /\ results = {<<"a", "b">>}
  /\ ~released

\* C15: the cached sequence is the work of one compute function, the one of
\* the call that won the population: once a call has set the guard to Done,
\* exactly one function has been invoked and the cache holds exactly what
\* one normally returning function produces.
C15_WinnerAloneDetermines ==
  (once_ = "Done" /\ owner \in Threads /\ ~released) =>
    /\ invocations = 1
    /\ \E f \in ComputeFns : ~f.throws /\ filters_ = f.out

\* C16: a population that completes with filters_ still empty sets the guard
\* to Done like any other, and from then on, until the storage is released,
\* the guard stays Done, no compute function is invoked and every memoize()
\* call that returns hands back the empty sequence.
C16_EmptyIsPopulated ==
  /\ [][\A t \in Threads :
          (pc[t] = "running" /\ pc'[t] = "returning" /\ filters_ = <<>>) =>
            once_' = "Done"]_vars
  /\ [][(once_ = "Done" /\ filters_ = <<>> /\ ~released) =>
          /\ once_' = "Done"
          /\ invocations' = invocations
          /\ filters_' = <<>>
          /\ results' \subseteq {<<>>}]_vars

\* An empty population has completed and a later call has returned the empty
\* sequence, one compute function having run in all.
C16_Witness ==
  /\ once_ = "Done"
  /\ filters_ = <<>>
  /\ ~released
  /\ owner \in Threads
  /\ invocations = 1
  /\ completions = 1
  /\ calls >= 2
  /\ results = {<<>>}
  /\ \A t \in Threads : pc[t] = "idle"

\* C17: no step of the destructor invokes a compute function or changes
\* filters_ before the storage is released; on a cache that was never
\* populated the destructor's call_once takes the guard from Unstarted to
\* Done through the empty lambda with filters_ still empty, and on a
\* populated one it passes with the guard Done.
C17_DtorNeverComputes ==
  /\ [][dtor' # dtor =>
          /\ invocations' = invocations
          /\ completions' = completions
          /\ ~released' => filters_' = filters_]_vars
  /\ [][(dtor = "call_once" /\ dtor' # dtor /\ once_ = "Unstarted") =>
          (once_' = "Populating" /\ owner' = Dtor /\ dtor' = "noop")]_vars
  /\ [][(dtor = "noop" /\ dtor' # dtor) =>
          (once_' = "Done" /\ dtor' = "release")]_vars
  /\ []((dtor \in {"noop", "release"} /\ invocations = 0) => filters_ = <<>>)
  /\ [](dtor = "release" => once_ = "Done")

\* A cache no call ever populated, taken to Done by the destructor's no-op
\* and about to be released, still empty.
C17_Witness ==
  /\ dtor = "release"
  /\ owner = Dtor
  /\ once_ = "Done"
  /\ invocations = 0
  /\ filters_ = <<>>
  /\ ~released

====
